---- MODULE Spec2Model ----
(***************************************************************************)
(* CakeMIDIFile (src/src/midi/cake/mod.rs): load_from_file's fan-out       *)
(* pipeline (one producer, two bounded channels, the tree-builder thread   *)
(* and the audio thread), the file object it returns, and the queries on   *)
(* that object (stats, cake_signature).                                    *)
(*                                                                         *)
(* Time.  The code keeps time as f64 seconds.  The model keeps it as an    *)
(* integer number of units, UnitsPerTick units to one tick and             *)
(* ticks_per_second ticks to one second, so that the truncation in         *)
(* (time * ticks_per_second as f64) as i32 is a real truncation.           *)
(* Rounding error of f64 addition is not modelled.                         *)
(***************************************************************************)
EXTENDS Integers, Sequences, FiniteSets, TLC

\* ---------------------------------------------------------------- bounds
\* Longest source (number of items the merged iterator yields).
MaxBatches == 3
\* Capacity of each bounded channel.  The code passes 1000 to
\* crossbeam_channel::bounded (mod.rs:69-70); the model scales it down so
\* that a source of MaxBatches items can fill a channel.
ChannelCap == 2
\* Time units per tick.
UnitsPerTick == 2

\* ------------------------------------------------------ program constants
ticks_per_second == 10000
\* One tree per MIDI pitch.
NumKeys == 128

UnitsPerSecond == ticks_per_second * UnitsPerTick
Keys == 0 .. (NumKeys - 1)
\* Values of what is not there yet: a record, a color vector.
None == [none |-> TRUE]
NoColors == [i \in {} |-> 0]

\* ------------------------------------------------------------ conversions
\* Division truncating toward zero, as a float-to-int cast truncates.
TruncDiv(a, b) == IF a >= 0 THEN a \div b ELSE -((-a) \div b)

\* TLC's integers are 32 bits wide, so an i32 is an integer of the model and
\* a u32 is the pair of its 16-bit halves.
I32Max == 2147483647
I32Min == -I32Max - 1
Half == 2^16
U32(hi, lo) == [hi |-> hi, lo |-> lo]

\* `x as i32` on a float: saturating.
F64AsI32(x) == IF x > I32Max THEN I32Max ELSE IF x < I32Min THEN I32Min ELSE x

\* `x as i32` on a u32: wraps.
U32AsI32(x) == (IF x.hi >= Half \div 2 THEN x.hi - Half ELSE x.hi) * Half + x.lo

\* `x as u32` on an i32: wraps.
I32AsU32(x) == U32((x \div Half) % Half, x % Half)

\* (time * ticks_per_second as f64) as i32, time in units.
IntTime(time) == F64AsI32(TruncDiv(time * ticks_per_second, UnitsPerSecond))

\* channel_track(channel, track)
channel_track(channel, track) == channel + track * 16

\* ------------------------------------------------------------ input data
NoteOnEv(key, channel, track) ==
    [kind |-> "NoteOn", key |-> key, channel |-> channel, track |-> track]
NoteOffEv(key, channel, track) ==
    [kind |-> "NoteOff", key |-> key, channel |-> channel, track |-> track]
OtherEv(track) ==
    [kind |-> "Other", key |-> 0, channel |-> 0, track |-> track]

\* An item of the merged iterator is a Result: Ok(batch) or Err.
\* A batch is a Delta<f64, Track<EventBatch<Event>>>.
Batch(delta, events) == [ok |-> TRUE, delta |-> delta, events |-> events]
Malformed == [ok |-> FALSE, delta |-> 0, events |-> << >>]

\* The batches sources are made of.
BatchPool ==
    { Batch(0, << NoteOnEv(60, 0, 0) >>),
      Batch(UnitsPerSecond, << NoteOffEv(60, 0, 0) >>),
      Batch(1, << NoteOnEv(60, 0, 0), NoteOnEv(61, 1, 1),
                  NoteOnEv(60, 0, 1), NoteOffEv(60, 0, 1) >>),
      Batch(UnitsPerTick + 1,
            << NoteOffEv(61, 1, 1), NoteOffEv(60, 1, 0), OtherEv(1) >>) }

SeqsUpTo(S, n) == UNION { [1 .. m -> S] : m \in 0 .. n }

ValidSources == SeqsUpTo(BatchPool, MaxBatches)

\* Number of tracks of the files modelled (midi.track_count()).
TrackCount(source) == 2

\* ----------------------------------------------------------------- colors
\* MIDIColor::new_vec_from_settings(track_count, settings): one color per
\* channel_track index, here as the u32 that as_u32() returns (alpha in the
\* top byte, so the value does not fit an i32).
new_vec_from_settings(track_count, palette) ==
    [i \in 0 .. (track_count * 16 - 1) |-> U32(255 * 2^8 + palette, i)]

\* ------------------------------------------------------------ tree builder
\* ThreadedTreeSerializers::new(): one empty builder per pitch.
NewTrees == [k \in Keys |-> << >>]

\* trees.push_event(key, event): the marker is appended to the pitch's builder.
push_event(trees, key, event) == [trees EXCEPT ![key] = Append(@, event)]

\* Index of the oldest note of `notes` still open on channel_track ct, 0 if none.
OldestOpen(notes, ct) ==
    LET open == { i \in 1 .. Len(notes) :
                    ~notes[i].ended /\ notes[i].channel_track = ct }
    IN  IF open = {} THEN 0 ELSE CHOOSE i \in open : \A j \in open : i <= j

\* The notes a builder's markers describe, in the order they start.
RECURSIVE BuildNotes(_, _)
BuildNotes(markers, notes) ==
    IF markers = << >> THEN notes
    ELSE LET m == Head(markers)
             i == OldestOpen(notes, m.channel_track)
         IN  IF m.kind = "On"
             THEN BuildNotes(Tail(markers),
                      Append(notes, [start |-> m.time, end |-> m.time,
                                     channel_track |-> m.channel_track,
                                     color |-> m.color, ended |-> FALSE]))
             ELSE IF i = 0 THEN BuildNotes(Tail(markers), notes)
             ELSE BuildNotes(Tail(markers),
                      [notes EXCEPT ![i].end = m.time, ![i].ended = TRUE])

\* Sealing one builder: notes never turned off end at final_time.
SealTree(markers, final_time) ==
    LET notes == BuildNotes(markers, << >>)
    IN  [i \in 1 .. Len(notes) |->
            [start |-> notes[i].start,
             end |-> IF notes[i].ended THEN notes[i].end ELSE final_time,
             channel_track |-> notes[i].channel_track,
             color |-> notes[i].color]]

\* trees.seal(final_time): one serialized tree per pitch.
seal(trees, final_time) == [k \in Keys |-> SealTree(trees[k], final_time)]

\* b.tree.len(): the serialized size of a block.
TreeLen(tree) == Len(tree)

\* CakeBlock::get_notes_passed_at(time): notes started and not yet ended.
get_notes_passed_at(block, time) ==
    Cardinality({ i \in 1 .. Len(block.tree) :
                    block.tree[i].start <= time /\ time < block.tree[i].end })

\* ------------------------------------------------- tree-builder thread body
\* One arm of the match on event.as_event() (mod.rs:88-117).
ProcessEventWrongKey(st, event, int_time, colors) ==
    LET ct == channel_track(event.channel, event.track)
        color == U32AsI32(colors[ct])
    IN  CASE event.kind = "NoteOn" ->
               [trees |-> push_event(st.trees, ct,
                              [kind |-> "On", time |-> int_time,
                               channel_track |-> ct, color |-> color]),
                note_count |-> st.note_count + 1]
          [] event.kind = "NoteOff" ->
               [trees |-> push_event(st.trees, ct,
                              [kind |-> "Off", time |-> int_time,
                               channel_track |-> ct, color |-> color]),
                note_count |-> st.note_count]
          [] OTHER -> st

ProcessEventAtTickZero(st, event, int_time, colors) ==
    LET ct == channel_track(event.channel, event.track)
        color == U32AsI32(colors[ct])
    IN  CASE event.kind = "NoteOn" ->
               [trees |-> push_event(st.trees, event.key,
                              [kind |-> "On", time |-> 0,
                               channel_track |-> ct, color |-> color]),
                note_count |-> st.note_count + 1]
          [] event.kind = "NoteOff" ->
               [trees |-> push_event(st.trees, event.key,
                              [kind |-> "Off", time |-> int_time,
                               channel_track |-> ct, color |-> color]),
                note_count |-> st.note_count]
          [] OTHER -> st

ProcessEventCountsOff(st, event, int_time, colors) ==
    LET ct == channel_track(event.channel, event.track)
        color == U32AsI32(colors[ct])
    IN  IF event.kind \in {"NoteOn", "NoteOff"}
        THEN [trees |-> push_event(st.trees, event.key,
                           [kind |-> IF event.kind = "NoteOn" THEN "On" ELSE "Off",
                            time |-> int_time, channel_track |-> ct,
                            color |-> color]),
              note_count |-> st.note_count + 1]
        ELSE st
ProcessEvent(st, event, int_time, colors) ==
    LET ct == channel_track(event.channel, event.track)
        color == U32AsI32(colors[ct])
    IN  CASE event.kind = "NoteOn" ->
               [trees |-> push_event(st.trees, event.key,
                              [kind |-> "On", time |-> int_time,
                               channel_track |-> ct, color |-> color]),
                note_count |-> st.note_count + 1]
          [] event.kind = "NoteOff" ->
               [trees |-> push_event(st.trees, event.key,
                              [kind |-> "Off", time |-> int_time,
                               channel_track |-> ct, color |-> color]),
                note_count |-> st.note_count]
          [] OTHER -> st

RECURSIVE ProcessEvents(_, _, _, _)
ProcessEvents(st, events, int_time, colors) ==
    IF events = << >> THEN st
    ELSE ProcessEvents(ProcessEvent(st, Head(events), int_time, colors),
                       Tail(events), int_time, colors)

ProcessBatchDeltaAsTime(loc, batch, colors) ==
    LET time == batch.delta
        st == ProcessEvents([trees |-> loc.trees, note_count |-> loc.note_count],
                            batch.events, IntTime(time), colors)
    IN  [time |-> time, trees |-> st.trees, note_count |-> st.note_count]

ProcessBatchStaleTime(loc, batch, colors) ==
    LET time == loc.time + batch.delta
        st == ProcessEvents([trees |-> loc.trees, note_count |-> loc.note_count],
                            batch.events, IntTime(loc.time), colors)
    IN  [time |-> time, trees |-> st.trees, note_count |-> st.note_count]

\* The body of `for batch in key_rcv` (mod.rs:80-118) on the thread's locals.
ProcessBatch(loc, batch, colors) ==
    LET time == loc.time + batch.delta
        st == ProcessEvents([trees |-> loc.trees, note_count |-> loc.note_count],
                            batch.events, IntTime(time), colors)
    IN  [time |-> time, trees |-> st.trees, note_count |-> st.note_count]

FinishKeysSealsOpenEnded(loc) ==
    LET final_time == IntTime(loc.time)
        serialized == seal(loc.trees, I32Max)
    IN  [keys |-> [k \in Keys |->
                     [start_time |-> 0, end_time |-> I32AsU32(final_time),
                      tree |-> serialized[k]]],
         note_count |-> loc.note_count]

FinishKeysOfPitchesUsed(loc) ==
    LET final_time == IntTime(loc.time)
        serialized == seal(loc.trees, final_time)
    IN  [keys |-> [k \in { n \in Keys : loc.trees[n] # << >> } |->
                     [start_time |-> 0, end_time |-> I32AsU32(final_time),
                      tree |-> serialized[k]]],
         note_count |-> loc.note_count]

\* After the loop (mod.rs:120-132): seal and wrap into CakeBlocks.
FinishKeys(loc) ==
    LET final_time == IntTime(loc.time)
        serialized == seal(loc.trees, final_time)
    IN  [keys |-> [k \in Keys |->
                     [start_time |-> 0, end_time |-> I32AsU32(final_time),
                      tree |-> serialized[k]]],
         note_count |-> loc.note_count]

\* CompressedAudio::build_blocks(batches).collect(): one block per batch,
\* in batch order, at the batch's position on the timeline.
RECURSIVE build_blocks(_, _)
build_blocks(batches, time) ==
    IF batches = << >> THEN << >>
    ELSE << [time |-> time + Head(batches).delta,
             events |-> Len(Head(batches).events)] >>
         \o build_blocks(Tail(batches), time + Head(batches).delta)

\* ------------------------------------------------------------ file object
\* CakeMIDIFile::key_blocks
key_blocks(f) == f.blocks

\* MIDIFileBase::midi_length
midi_length(f) == f.length

\* CakeMIDIFile::current_time: timer.get_time()
current_time(t) == t

\* CakeMIDIFile::cake_signature
cake_signature(f) ==
    [file_signature |-> f.signature,
     note_count |-> f.note_count,
     buffer_sizes |-> [k \in Keys |-> TreeLen(f.blocks[k].tree)]]

\* .iter().map(|b| b.get_notes_passed_at(time_int) as u64).sum(), over the
\* blocks lo..hi (the sum is split in halves to keep the recursion shallow).
RECURSIVE SumPassed(_, _, _, _)
SumPassed(blocks, time_int, lo, hi) ==
    IF lo > hi THEN 0
    ELSE IF lo = hi THEN get_notes_passed_at(blocks[lo], time_int)
    ELSE LET mid == (lo + hi) \div 2
         IN  SumPassed(blocks, time_int, lo, mid)
             + SumPassed(blocks, time_int, mid + 1, hi)

\* MIDIFileBase::stats, `time` being timer.get_time()
stats(f, time) ==
    LET time_int == IntTime(time)
    IN  [total_notes |-> f.note_count,
         passed_notes |-> SumPassed(f.blocks, time_int, 0, NumKeys - 1)]

\* ---------------------------------------------------------------- channels
\* crossbeam_channel::bounded: the queue, and whether the sender and the
\* receiver are still alive.
NoChannel == [q |-> << >>, snd |-> FALSE, rcv |-> FALSE]
bounded == [q |-> << >>, snd |-> TRUE, rcv |-> TRUE]

\* send blocks while the channel is full and the receiver is alive.
HasRoomAlways(ch) == TRUE
HasRoom(ch) == Len(ch.q) < ChannelCap
EnqueueFront(ch, b) == [ch EXCEPT !.q = << b >> \o @]
Enqueue(ch, b) == [ch EXCEPT !.q = Append(@, b)]
\* The receiving iterator ends when the channel is empty and disconnected.
EndOfStream(ch) == ch.q = << >> /\ ~ch.snd
\* JoinHandle::join returns once the thread has ended.
Joinable(tpc) == tpc \in {"done", "panicked"}

\* ------------------------------------------------------------------- state
VARIABLES
    input,       \* the file at `path` and the settings: fixed for the load
    pc,          \* position of the caller's thread in load_from_file
    signature,   \* signature returned by open_file_and_signature
    colors,      \* the color vector
    iter,        \* position of `merged` in the source
    length,      \* the producer's accumulated length
    batch,       \* the batch the producer is sending
    keyChan,     \* (key_snd, key_rcv)
    audioChan,   \* (audio_snd, audio_rcv)
    kpc,         \* tree-builder thread: "none", "run", "done", "panicked"
    keyLoc,      \* its locals: time, trees, note_count
    keyOut,      \* its return value
    keyRcvd,     \* history: the batches its loop has received
    apc,         \* audio thread: "none", "run", "done", "panicked"
    audioRcvd,   \* history: the batches build_blocks has pulled
    audioOut,    \* its return value
    joined,      \* what the two joins returned to the caller
    outcome,     \* "none", "Ok", "Err", "Panic"
    file,        \* the CakeMIDIFile returned, without its timer
    playback,    \* the audio handed to InRamAudioPlayer
    timer,       \* TimeKeeper: the current time, in units
    last_stats,  \* what the last stats() call returned
    loads        \* two loads side by side: each one's arguments and result

inputVars == << input, loads >>

vars == << input, pc, signature, colors, iter, length, batch, keyChan, audioChan,
           kpc, keyLoc, keyOut, keyRcvd, apc, audioRcvd, audioOut, joined,
           outcome, file, playback, timer, last_stats, loads >>

callerVars == << pc, signature, colors, iter, length, batch, joined, outcome, file,
                 playback >>
keyVars == << kpc, keyLoc, keyOut, keyRcvd >>
audioVars == << apc, audioRcvd, audioOut >>
queryVars == << timer, last_stats >>

\* ------------------------------------------------------------------ inputs
\* (file signature, color palette, settings.start_delay in units)
Profiles == { [signature |-> "a.mid", palette |-> 0, start_delay |-> 0],
              [signature |-> "b.mid", palette |-> 1, start_delay |-> UnitsPerTick + 1] }

MakeInput(source, profile, open_ok, header_ok, colors_ok) ==
    [source |-> source, signature |-> profile.signature,
     palette |-> profile.palette, start_delay |-> profile.start_delay,
     open_ok |-> open_ok, header_ok |-> header_ok, colors_ok |-> colors_ok]

\* Files that open and parse, settings that yield colors.
ValidInputs ==
    { MakeInput(s, p, TRUE, TRUE, TRUE) : s \in ValidSources, p \in Profiles }

InitState(inputs) ==
    /\ input \in inputs
    /\ pc = "open"
    /\ signature = ""
    /\ colors = NoColors
    /\ iter = 1
    /\ length = 0
    /\ batch = None
    /\ keyChan = NoChannel
    /\ audioChan = NoChannel
    /\ kpc = "none"
    /\ keyLoc = None
    /\ keyOut = None
    /\ keyRcvd = << >>
    /\ apc = "none"
    /\ audioRcvd = << >>
    /\ audioOut = << >>
    /\ joined = [keys |-> None, audio |-> << >>]
    /\ outcome = "none"
    /\ file = None
    /\ playback = << >>
    /\ timer = 0
    /\ last_stats = None

InitWith(inputs) == InitState(inputs) /\ loads = << >>

Init == InitWith(ValidInputs)

\* ------------------------------------------------------- the caller's thread
\* `?` on an Err: the function returns it; nothing else has been created.
ReturnErr ==
    /\ pc' = "returned"
    /\ outcome' = "Err"
    /\ UNCHANGED << signature, colors, iter, length, batch, joined, file, playback >>
    /\ UNCHANGED << keyChan, audioChan >>

\* A panic on the caller's thread: unwinding drops both senders (and the join
\* handles, which detaches the threads).
Unwind ==
    /\ pc' = "panicked"
    /\ outcome' = "Panic"
    /\ keyChan' = [keyChan EXCEPT !.snd = FALSE]
    /\ audioChan' = [audioChan EXCEPT !.snd = FALSE]
    /\ UNCHANGED << signature, colors, iter, length, batch, joined, file, playback >>

\* open_file_and_signature(path)?
OpenFile ==
    /\ pc = "open"
    /\ IF input.open_ok
       THEN /\ pc' = "parse"
            /\ signature' = input.signature
            /\ UNCHANGED << colors, iter, length, batch, joined, outcome, file,
                            playback, keyChan, audioChan >>
       ELSE ReturnErr
    /\ UNCHANGED << inputVars, keyVars, audioVars, queryVars >>

\* TKMIDIFile::open_from_stream(file, None).map_err(MidiLoadError)?
\* `merged` is built lazily: nothing is read from the tracks yet.
OpenFromStream ==
    /\ pc = "parse"
    /\ IF input.header_ok
       THEN /\ pc' = "colors"
            /\ UNCHANGED << signature, colors, iter, length, batch, joined, outcome,
                            file, playback, keyChan, audioChan >>
       ELSE ReturnErr
    /\ UNCHANGED << inputVars, keyVars, audioVars, queryVars >>

\* MIDIColor::new_vec_from_settings(..)?, then the two bounded channels.
AssignColors ==
    /\ pc = "colors"
    /\ IF input.colors_ok
       THEN /\ pc' = "spawn_key"
            /\ colors' = new_vec_from_settings(TrackCount(input.source), input.palette)
            /\ keyChan' = bounded
            /\ audioChan' = bounded
            /\ UNCHANGED << signature, iter, length, batch, joined, outcome, file,
                            playback >>
       ELSE ReturnErr
    /\ UNCHANGED << inputVars, keyVars, audioVars, queryVars >>

\* thread::spawn of the tree builder; its locals start at time 0, no notes.
SpawnKey ==
    /\ pc = "spawn_key"
    /\ pc' = "spawn_audio"
    /\ kpc' = "run"
    /\ keyLoc' = [time |-> 0, trees |-> NewTrees, note_count |-> 0]
    /\ UNCHANGED << inputVars, signature, colors, iter, length, batch, joined, outcome,
                    file, playback, keyChan, audioChan, keyOut, keyRcvd,
                    audioVars, queryVars >>

\* thread::spawn of the audio thread; `let mut length = 0.0`.
SpawnAudio ==
    /\ pc = "spawn_audio"
    /\ pc' = "next"
    /\ apc' = "run"
    /\ length' = 0
    /\ UNCHANGED << inputVars, signature, colors, iter, batch, joined, outcome, file,
                    playback, keyChan, audioChan, keyVars, audioRcvd, audioOut,
                    queryVars >>

NextBatchForgetsLength ==
    /\ pc = "next"
    /\ IF iter > Len(input.source)
       THEN /\ pc' = "drop_key"
            /\ UNCHANGED << signature, colors, iter, length, batch, joined, outcome,
                            file, playback, keyChan, audioChan >>
       ELSE IF ~input.source[iter].ok
       THEN Unwind
       ELSE /\ pc' = "send_key"
            /\ iter' = iter + 1
            /\ batch' = input.source[iter]
            /\ UNCHANGED << signature, colors, length, joined, outcome, file, playback,
                            keyChan, audioChan >>
    /\ UNCHANGED << inputVars, keyVars, audioVars, queryVars >>

\* `for batch in merged`: the next item, unwrapped by unwrap_items, or the end.
NextBatch ==
    /\ pc = "next"
    /\ IF iter > Len(input.source)
       THEN /\ pc' = "drop_key"
            /\ UNCHANGED << signature, colors, iter, length, batch, joined, outcome,
                            file, playback, keyChan, audioChan >>
       ELSE IF ~input.source[iter].ok
       THEN Unwind
       ELSE /\ pc' = "send_key"
            /\ iter' = iter + 1
            /\ length' = length + input.source[iter].delta
            /\ batch' = input.source[iter]
            /\ UNCHANGED << signature, colors, joined, outcome, file, playback,
                            keyChan, audioChan >>
    /\ UNCHANGED << inputVars, keyVars, audioVars, queryVars >>

SendKeySkipsAudio ==
    /\ pc = "send_key"
    /\ IF ~keyChan.rcv
       THEN Unwind
       ELSE /\ HasRoom(keyChan)
            /\ keyChan' = Enqueue(keyChan, batch)
            /\ pc' = "next"
            /\ UNCHANGED << signature, colors, iter, length, batch, joined, outcome,
                            file, playback, audioChan >>
    /\ UNCHANGED << inputVars, keyVars, audioVars, queryVars >>

SendKeyIgnoresDisconnect ==
    /\ pc = "send_key"
    /\ HasRoom(keyChan)
    /\ keyChan' = Enqueue(keyChan, batch)
    /\ pc' = "send_audio"
    /\ UNCHANGED << signature, colors, iter, length, batch, joined, outcome,
                    file, playback, audioChan >>
    /\ UNCHANGED << inputVars, keyVars, audioVars, queryVars >>

\* key_snd.send(batch.clone()).unwrap()
SendKey ==
    /\ pc = "send_key"
    /\ IF ~keyChan.rcv
       THEN Unwind
       ELSE /\ HasRoom(keyChan)
            /\ keyChan' = Enqueue(keyChan, batch)
            /\ pc' = "send_audio"
            /\ UNCHANGED << signature, colors, iter, length, batch, joined, outcome,
                            file, playback, audioChan >>
    /\ UNCHANGED << inputVars, keyVars, audioVars, queryVars >>

\* audio_snd.send(batch).unwrap()
SendAudio ==
    /\ pc = "send_audio"
    /\ IF ~audioChan.rcv
       THEN Unwind
       ELSE /\ HasRoom(audioChan)
            /\ audioChan' = Enqueue(audioChan, batch)
            /\ pc' = "next"
            /\ UNCHANGED << signature, colors, iter, length, batch, joined, outcome,
                            file, playback, keyChan >>
    /\ UNCHANGED << inputVars, keyVars, audioVars, queryVars >>

DropKeySndForgotten ==
    /\ pc = "drop_key"
    /\ pc' = "drop_audio"
    /\ UNCHANGED << inputVars, signature, colors, iter, length, batch, joined, outcome,
                    file, playback, keyChan, audioChan, keyVars, audioVars,
                    queryVars >>

\* drop(key_snd)
DropKeySnd ==
    /\ pc = "drop_key"
    /\ pc' = "drop_audio"
    /\ keyChan' = [keyChan EXCEPT !.snd = FALSE]
    /\ UNCHANGED << inputVars, signature, colors, iter, length, batch, joined, outcome,
                    file, playback, audioChan, keyVars, audioVars, queryVars >>

\* drop(audio_snd)
DropAudioSnd ==
    /\ pc = "drop_audio"
    /\ pc' = "join_key"
    /\ audioChan' = [audioChan EXCEPT !.snd = FALSE]
    /\ UNCHANGED << inputVars, signature, colors, iter, length, batch, joined, outcome,
                    file, playback, keyChan, keyVars, audioVars, queryVars >>

\* key_join_handle.join().unwrap()
JoinKey ==
    /\ pc = "join_key"
    /\ Joinable(kpc)
    /\ IF kpc = "panicked"
       THEN Unwind
       ELSE /\ pc' = "join_audio"
            /\ joined' = [joined EXCEPT !.keys = keyOut]
            /\ UNCHANGED << signature, colors, iter, length, batch, outcome, file,
                            playback, keyChan, audioChan >>
    /\ UNCHANGED << inputVars, keyVars, audioVars, queryVars >>

JoinAudioNoWait ==
    /\ pc = "join_audio"
    /\ pc' = "finish"
    /\ joined' = [joined EXCEPT !.audio = audioOut]
    /\ UNCHANGED << signature, colors, iter, length, batch, outcome, file,
                    playback, keyChan, audioChan >>
    /\ UNCHANGED << inputVars, keyVars, audioVars, queryVars >>

\* audio_join_handle.join().unwrap()
JoinAudio ==
    /\ pc = "join_audio"
    /\ Joinable(apc)
    /\ IF apc = "panicked"
       THEN Unwind
       ELSE /\ pc' = "finish"
            /\ joined' = [joined EXCEPT !.audio = audioOut]
            /\ UNCHANGED << signature, colors, iter, length, batch, outcome, file,
                            playback, keyChan, audioChan >>
    /\ UNCHANGED << inputVars, keyVars, audioVars, queryVars >>

\* TimeKeeper::new(start_delay), spawn_playback, Ok(CakeMIDIFile { .. })
ReturnOk ==
    /\ pc = "finish"
    /\ pc' = "returned"
    /\ outcome' = "Ok"
    /\ timer' = -input.start_delay
    /\ playback' = joined.audio
    /\ file' = [blocks |-> joined.keys.keys,
                length |-> length,
                note_count |-> joined.keys.note_count,
                ticks_per_second |-> ticks_per_second,
                signature |-> signature]
    /\ UNCHANGED << inputVars, signature, colors, iter, length, batch, joined, keyChan,
                    audioChan, keyVars, audioVars, last_stats >>

\* ------------------------------------------------------ tree-builder thread
\* One iteration of `for batch in key_rcv.into_iter()`.
KeyRecv ==
    /\ kpc = "run"
    /\ keyChan.q # << >>
    /\ keyChan' = [keyChan EXCEPT !.q = Tail(@)]
    /\ keyLoc' = ProcessBatch(keyLoc, Head(keyChan.q), colors)
    /\ keyRcvd' = Append(keyRcvd, Head(keyChan.q))
    /\ UNCHANGED << inputVars, callerVars, audioChan, kpc, keyOut, audioVars, queryVars >>

\* The loop ends (the receiver is dropped with it), the trees are sealed and
\* the thread returns.
KeyFinish ==
    /\ kpc = "run"
    /\ EndOfStream(keyChan)
    /\ kpc' = "done"
    /\ keyChan' = [keyChan EXCEPT !.rcv = FALSE]
    /\ keyOut' = FinishKeys(keyLoc)
    /\ UNCHANGED << inputVars, callerVars, audioChan, keyLoc, keyRcvd, audioVars,
                    queryVars >>

\* ------------------------------------------------------------- audio thread
\* build_blocks pulls one batch from audio_rcv.into_iter().
AudioRecv ==
    /\ apc = "run"
    /\ audioChan.q # << >>
    /\ audioChan' = [audioChan EXCEPT !.q = Tail(@)]
    /\ audioRcvd' = Append(audioRcvd, Head(audioChan.q))
    /\ UNCHANGED << inputVars, callerVars, keyChan, keyVars, apc, audioOut, queryVars >>

\* The iterator ends; the collected vector is returned.
AudioFinish ==
    /\ apc = "run"
    /\ EndOfStream(audioChan)
    /\ apc' = "done"
    /\ audioChan' = [audioChan EXCEPT !.rcv = FALSE]
    /\ audioOut' = build_blocks(audioRcvd, 0)
    /\ UNCHANGED << inputVars, callerVars, keyChan, keyVars, audioRcvd, queryVars >>

\* ------------------------------------------------------- after load returns
\* Times the timer is moved to: before 0, inside a tick, on and across the
\* seconds of the sources.
SeekTimes ==
    { -1, 0, 1, UnitsPerSecond \div 2, UnitsPerSecond, (3 * UnitsPerSecond) \div 2 }

\* timer_mut().seek(t): forward or backward.
Seek ==
    /\ outcome = "Ok"
    /\ \E t \in SeekTimes : timer' = t
    /\ UNCHANGED << inputVars, callerVars, keyChan, audioChan, keyVars, audioVars,
                    last_stats >>

StatsDrainsPassedNotes ==
    /\ outcome = "Ok"
    /\ last_stats' = stats(file, timer)
    /\ file' = [file EXCEPT !.note_count = @ - stats(file, timer).passed_notes]
    /\ UNCHANGED << inputVars, pc, signature, colors, iter, length, batch, joined,
                    outcome, playback, keyChan, audioChan, keyVars, audioVars, timer >>

StatsAddsToLastQuery ==
    /\ outcome = "Ok"
    /\ last_stats' =
         [total_notes |-> file.note_count,
          passed_notes |-> stats(file, timer).passed_notes
                           + (IF last_stats = None THEN 0 ELSE last_stats.passed_notes)]
    /\ UNCHANGED << inputVars, callerVars, keyChan, audioChan, keyVars, audioVars,
                    timer >>

\* stats()
Stats ==
    /\ outcome = "Ok"
    /\ last_stats' = stats(file, timer)
    /\ UNCHANGED << inputVars, callerVars, keyChan, audioChan, keyVars, audioVars,
                    timer >>

\* ------------------------------------------------------------ specification
Caller ==
    \/ OpenFile \/ OpenFromStream \/ AssignColors \/ SpawnKey \/ SpawnAudio
    \/ NextBatch \/ SendKey \/ SendAudio \/ DropKeySnd \/ DropAudioSnd
    \/ JoinKey \/ JoinAudio \/ ReturnOk
KeyThread == KeyRecv \/ KeyFinish
AudioThread == AudioRecv \/ AudioFinish
Load == Caller \/ KeyThread \/ AudioThread

Next == Load \/ Seek \/ Stats

Spec == Init /\ [][Next]_vars

\* The three workers are OS threads: each one that can take a step
\* eventually takes one.
\* Scheduling does not depend on what the batches hold: the specifications
\* about scheduling draw their sources from two batches.
SmallPool ==
    { Batch(0, << NoteOnEv(60, 0, 0) >>),
      Batch(UnitsPerSecond, << NoteOffEv(60, 0, 0) >>) }
FirstProfile == CHOOSE p \in Profiles : p.palette = 0
SmallInputs ==
    { MakeInput(s, FirstProfile, TRUE, TRUE, TRUE) :
        s \in SeqsUpTo(SmallPool, MaxBatches) }

\* The specification is of the load alone: it ends when load_from_file returns.
FairSpec ==
    /\ InitWith(SmallInputs) /\ [][Load]_vars
    /\ WF_vars(Caller) /\ WF_vars(KeyThread) /\ WF_vars(AudioThread)

\* -------------------------------------------------------------- bad inputs
\* Files that fail to open, headers that fail to parse, settings that yield
\* no colors, and sources with items that fail to parse.
FaultInputs ==
    { MakeInput(s, FirstProfile, o, h, c) :
        s \in SeqsUpTo(SmallPool \cup {Malformed}, MaxBatches),
        o \in BOOLEAN, h \in BOOLEAN, c \in BOOLEAN }

SpecInput == InitWith(FaultInputs) /\ [][Next]_vars

\* --------------------------------------------------------- consumer panics
\* The tree-builder thread panics somewhere in its closure: the unwinding
\* drops key_rcv.  What is queued stays in the channel.
KeyPanic ==
    /\ kpc = "run"
    /\ kpc' = "panicked"
    /\ keyChan' = [keyChan EXCEPT !.rcv = FALSE]
    /\ UNCHANGED << inputVars, callerVars, audioChan, keyLoc, keyOut, keyRcvd,
                    audioVars, queryVars >>

\* The audio thread panics in build_blocks: the unwinding drops audio_rcv.
AudioPanic ==
    /\ apc = "run"
    /\ apc' = "panicked"
    /\ audioChan' = [audioChan EXCEPT !.rcv = FALSE]
    /\ UNCHANGED << inputVars, callerVars, keyChan, keyVars, audioRcvd, audioOut,
                    queryVars >>

\* A load in which a consumer may panic at any point; the threads are
\* scheduled fairly, a panic is never bound to happen.
PanicSpec ==
    /\ InitWith(SmallInputs)
    /\ [][Load \/ KeyPanic \/ AudioPanic]_vars
    /\ WF_vars(Caller) /\ WF_vars(KeyThread) /\ WF_vars(AudioThread)

\* ------------------------------------------------------ loads side by side
\* What load_from_file returns for a file that opens and parses, the threads
\* taken one after the other: the tree builder's loop over the whole source,
\* the seal, the producer's length.
RECURSIVE ProcessSource(_, _, _)
ProcessSource(loc, source, cols) ==
    IF source = << >> THEN loc
    ELSE ProcessSource(ProcessBatch(loc, Head(source), cols), Tail(source), cols)

RECURSIVE SumDeltas(_)
SumDeltas(source) ==
    IF source = << >> THEN 0 ELSE Head(source).delta + SumDeltas(Tail(source))

load_from_file(in) ==
    LET cols == new_vec_from_settings(TrackCount(in.source), in.palette)
        loc == ProcessSource([time |-> 0, trees |-> NewTrees, note_count |-> 0],
                             in.source, cols)
        out == FinishKeys(loc)
    IN  [blocks |-> out.keys,
         length |-> SumDeltas(in.source),
         note_count |-> out.note_count,
         ticks_per_second |-> ticks_per_second,
         signature |-> in.signature]

\* The files on disk: each path has its own signature and its own content.
\* b.mid is a.mid with the note's end moved, c.mid has a second note.
FilesOnDisk ==
    { [signature |-> "a.mid",
       source |-> << Batch(0, << NoteOnEv(60, 0, 0) >>),
                     Batch(UnitsPerSecond, << NoteOffEv(60, 0, 0) >>) >>],
      [signature |-> "b.mid",
       source |-> << Batch(0, << NoteOnEv(60, 0, 0) >>),
                     Batch(UnitsPerSecond + UnitsPerTick, << NoteOffEv(60, 0, 0) >>) >>],
      [signature |-> "c.mid",
       source |-> << Batch(0, << NoteOnEv(60, 0, 0), NoteOnEv(61, 1, 1) >>),
                     Batch(UnitsPerSecond, << NoteOffEv(60, 0, 0) >>) >>] }

PairInputs ==
    { [source |-> f.source, signature |-> f.signature, palette |-> p.palette,
       start_delay |-> p.start_delay,
       open_ok |-> TRUE, header_ok |-> TRUE, colors_ok |-> TRUE] :
        f \in FilesOnDisk, p \in Profiles }

\* One of the two loads runs to its end.
LoadWhole ==
    /\ \E n \in DOMAIN loads :
         /\ loads[n].file = None
         /\ loads' = [loads EXCEPT ![n].file = load_from_file(loads[n].input)]
    /\ UNCHANGED << input, callerVars, keyChan, audioChan, keyVars, audioVars,
                    queryVars >>

InitPair ==
    /\ InitState({ MakeInput(<< >>, FirstProfile, TRUE, TRUE, TRUE) })
    /\ \E a \in PairInputs, b \in PairInputs :
         loads = << [input |-> a, file |-> None], [input |-> b, file |-> None] >>

PairSpec == InitPair /\ [][LoadWhole]_vars

\* ------------------------------------------------------------------ claims
\* Number of batches the producer has sent on each channel so far.
KeySent == IF pc = "send_key" THEN iter - 2 ELSE iter - 1
AudioSent == IF pc \in {"send_key", "send_audio"} THEN iter - 2 ELSE iter - 1

\* C1: on each channel, what the consumer has received followed by what is
\* still queued is exactly the prefix of the source the producer has sent, in
\* source order; a consumer that has finished has received the whole source.
ExactlyOnceInOrder ==
    /\ keyRcvd \o keyChan.q = SubSeq(input.source, 1, KeySent)
    /\ audioRcvd \o audioChan.q = SubSeq(input.source, 1, AudioSent)
    /\ kpc = "done" => keyRcvd = input.source
    /\ apc = "done" => audioRcvd = input.source

BothReceivedAll ==
    /\ kpc = "done" /\ apc = "done"
    /\ Len(input.source) = MaxBatches
    /\ input.source[1] # input.source[2]
    /\ keyRcvd = input.source /\ audioRcvd = input.source

\* C2: neither channel ever holds more than its capacity, and a send on a
\* full channel is blocked, whatever the consumers do or fail to do.
Backpressure ==
    /\ Len(keyChan.q) <= ChannelCap
    /\ Len(audioChan.q) <= ChannelCap
    /\ (pc = "send_key" /\ Len(keyChan.q) = ChannelCap) => ~ENABLED SendKey
    /\ (pc = "send_audio" /\ Len(audioChan.q) = ChannelCap) => ~ENABLED SendAudio

ProducerBlockedOnFullChannel ==
    /\ pc = "send_key" /\ Len(keyChan.q) = ChannelCap
    /\ kpc = "run" /\ keyRcvd = << >>
    /\ Len(audioChan.q) = ChannelCap

\* C3: when load_from_file has returned Ok, both threads have finished, the
\* blocks returned are the ones the tree builder sealed after it received the
\* whole source, and the audio handed on is the audio thread's whole vector.
NoReturnBeforeConsumers ==
    outcome = "Ok" =>
        /\ kpc = "done" /\ apc = "done"
        /\ keyRcvd = input.source /\ audioRcvd = input.source
        /\ file.blocks = keyOut.keys
        /\ playback = audioOut
        /\ Len(playback) = Len(input.source)

ReturnedAfterSlowConsumers ==
    /\ outcome = "Ok"
    /\ Len(input.source) = MaxBatches
    /\ Len(playback) = MaxBatches

\* C4: under fair scheduling the load returns, with the source exhausted,
\* both senders dropped and both consumers finished; a consumer finishes only
\* with its channel empty and the whole source received; and as long as the
\* load has not returned, some worker can take a step.
LoadTerminates ==
    /\ <>(/\ pc = "returned" /\ outcome = "Ok"
          /\ iter > Len(input.source)
          /\ ~keyChan.snd /\ ~audioChan.snd
          /\ kpc = "done" /\ apc = "done")
    /\ [](kpc = "done" => keyChan.q = << >> /\ Len(keyRcvd) = Len(input.source))
    /\ [](apc = "done" => audioChan.q = << >> /\ Len(audioRcvd) = Len(input.source))
    /\ [](pc # "returned" => ENABLED Load)

LoadReturned ==
    /\ pc = "returned" /\ outcome = "Ok"
    /\ Len(input.source) = MaxBatches
    /\ kpc = "done" /\ apc = "done"

\* Note-On events of a sequence of events, of a source.
RECURSIVE CountOnEvents(_)
CountOnEvents(events) ==
    IF events = << >> THEN 0
    ELSE (IF Head(events).kind = "NoteOn" THEN 1 ELSE 0) + CountOnEvents(Tail(events))

RECURSIVE CountNoteOns(_)
CountNoteOns(source) ==
    IF source = << >> THEN 0
    ELSE CountOnEvents(Head(source).events) + CountNoteOns(Tail(source))

\* C5: the note_count of the returned file, and the total_notes stats()
\* reports, is the number of Note-On events of the source.
NoteCountIsNoteOns ==
    /\ outcome = "Ok" =>
         /\ file.note_count = CountNoteOns(input.source)
         /\ stats(file, timer).total_notes = CountNoteOns(input.source)
    /\ last_stats # None => last_stats.total_notes = CountNoteOns(input.source)

CountedNotesAmongOffs ==
    /\ outcome = "Ok"
    /\ file.note_count >= 3
    /\ \E i \in 1 .. Len(input.source) :
         \E j \in 1 .. Len(input.source[i].events) :
            input.source[i].events[j].kind = "NoteOff"
    /\ last_stats # None

\* Whether the file, its stream or the settings make the load fail.
InputFails ==
    \/ ~input.open_ok \/ ~input.header_ok \/ ~input.colors_ok
    \/ \E i \in 1 .. Len(input.source) : ~input.source[i].ok

\* C6: a load that has ended has returned Ok with both threads joined and the
\* channels drained, or has returned Err with no consumer thread started; and
\* when the file, its stream or the settings are bad no consumer thread is
\* ever started.
LoadIsAtomic ==
    /\ pc \in {"returned", "panicked"} =>
         \/ /\ outcome = "Ok"
            /\ kpc = "done" /\ apc = "done"
            /\ keyChan.q = << >> /\ audioChan.q = << >>
         \/ /\ outcome = "Err"
            /\ kpc = "none" /\ apc = "none"
    /\ InputFails => kpc = "none" /\ apc = "none"

\* C7: once a consumer thread has panicked the load never returns Ok and no
\* file is exposed, and the caller's thread ends in a panic: it does not stay
\* blocked on a send, on a full channel or not.
ConsumerPanicIsFatal ==
    /\ []((kpc = "panicked" \/ apc = "panicked") => outcome # "Ok" /\ file = None)
    /\ (kpc = "panicked" \/ apc = "panicked") ~> (pc = "panicked")

PanicWhileChannelFull ==
    /\ kpc = "panicked"
    /\ pc = "send_key"
    /\ Len(keyChan.q) = ChannelCap

\* Note-On events of pitch k of a sequence of events, of a source.
RECURSIVE CountOnEventsOfKey(_, _)
CountOnEventsOfKey(events, k) ==
    IF events = << >> THEN 0
    ELSE (IF Head(events).kind = "NoteOn" /\ Head(events).key = k THEN 1 ELSE 0)
         + CountOnEventsOfKey(Tail(events), k)

RECURSIVE CountNoteOnsOfKey(_, _)
CountNoteOnsOfKey(source, k) ==
    IF source = << >> THEN 0
    ELSE CountOnEventsOfKey(Head(source).events, k)
         + CountNoteOnsOfKey(Tail(source), k)

\* C8: the file a load returns, and so its cake_signature, is the same in
\* every interleaving: it is a function of the load's arguments, and the
\* signature one of the source and the file signature alone.
SignatureDeterministic ==
    outcome = "Ok" =>
        /\ file = load_from_file(input)
        /\ cake_signature(file) =
             [file_signature |-> input.signature,
              note_count |-> CountNoteOns(input.source),
              buffer_sizes |-> [k \in Keys |-> CountNoteOnsOfKey(input.source, k)]]

SignatureOfTwoPitches ==
    /\ outcome = "Ok"
    /\ Len(input.source) = MaxBatches
    /\ cake_signature(file).buffer_sizes[60] > 0
    /\ cake_signature(file).buffer_sizes[61] > 0

\* C9: two loads whose blocks differ have different fingerprints.
FingerprintTellsContent ==
    (/\ loads # << >>
     /\ loads[1].file # None /\ loads[2].file # None
     /\ loads[1].file.blocks # loads[2].file.blocks)
    => cake_signature(loads[1].file) # cake_signature(loads[2].file)

\* The notes open after a sequence of events: a Note-On opens one, a Note-Off
\* closes the oldest open one of its pitch, channel and track, if any.
RECURSIVE OpenAfterEvents(_, _)
OpenAfterEvents(events, open) ==
    IF events = << >> THEN open
    ELSE LET e == Head(events)
             id == [key |-> e.key, channel |-> e.channel, track |-> e.track]
             hit == { i \in 1 .. Len(open) : open[i] = id }
             first == CHOOSE i \in hit : \A j \in hit : i <= j
         IN  CASE e.kind = "NoteOn" -> OpenAfterEvents(Tail(events), Append(open, id))
               [] e.kind = "NoteOff" /\ hit # {} ->
                    OpenAfterEvents(Tail(events),
                        SubSeq(open, 1, first - 1) \o SubSeq(open, first + 1, Len(open)))
               [] OTHER -> OpenAfterEvents(Tail(events), open)

\* The notes open after the batches of the source that lie at a tick <= T,
\* `units` being the time before the first batch of `source`.
RECURSIVE OpenAt(_, _, _, _)
OpenAt(source, T, units, open) ==
    IF source = << >> THEN open
    ELSE LET u == units + Head(source).delta
         IN  IF u \div UnitsPerTick > T THEN open
             ELSE OpenAt(Tail(source), T, u, OpenAfterEvents(Head(source).events, open))

\* The source's last tick: every note has ended there.
LastTick(source) == SumDeltas(source) \div UnitsPerTick

\* Notes of any pitch started at a tick <= T and not ended as of T.
SoundingAt(source, T) ==
    IF T >= LastTick(source) THEN << >> ELSE OpenAt(source, T, 0, << >>)

\* Those of pitch k among them.
OfKey(open, k) == Cardinality({ i \in 1 .. Len(open) : open[i].key = k })

ProbeTicks == { -1, 0, 1, 2, 5000, 9999, 10000, 10001, 15000, 20000 }

OneNoteForOneSecond ==
    << Batch(0, << NoteOnEv(60, 0, 0) >>),
       Batch(UnitsPerSecond, << NoteOffEv(60, 0, 0) >> ) >>

\* C10: on the blocks the tree builder has sealed, which are the blocks of the
\* file returned, get_notes_passed_at(T) is the number of notes of the pitch
\* started at a tick <= T and not ended as of T (1 at tick 5000 and 0 at tick
\* 15000 for a note from 0 s to 1 s), and the passed_notes of stats() is that
\* number over all pitches at the timer's tick.
PassedNotesAreSounding ==
    /\ pc = "finish" =>
         \A T \in ProbeTicks :
            LET open == SoundingAt(input.source, T)
            IN  \A k \in Keys :
                   get_notes_passed_at(joined.keys.keys[k], T) = OfKey(open, k)
    /\ outcome = "Ok" =>
         /\ file.blocks = joined.keys.keys
         /\ stats(file, timer).passed_notes
              = Len(SoundingAt(input.source, TruncDiv(timer, UnitsPerTick)))
         /\ input.source = OneNoteForOneSecond =>
              /\ get_notes_passed_at(file.blocks[60], 5000) = 1
              /\ get_notes_passed_at(file.blocks[60], 15000) = 0
              /\ stats(file, UnitsPerSecond \div 2).passed_notes = 1
              /\ stats(file, (3 * UnitsPerSecond) \div 2).passed_notes = 0

StatsWhileNoteSounds ==
    /\ outcome = "Ok"
    /\ input.source = OneNoteForOneSecond
    /\ timer = UnitsPerSecond \div 2
    /\ last_stats # None
    /\ last_stats.passed_notes = 1

\* The pitches the source has a Note-On or a Note-Off for.
PitchesOf(source) ==
    UNION { { source[i].events[j].key :
                j \in { n \in 1 .. Len(source[i].events) :
                          source[i].events[n].kind # "Other" } } :
            i \in 1 .. Len(source) }

\* The tick of every batch of `source`, `units` being the time before the first.
RECURSIVE TicksOf(_, _)
TicksOf(source, units) ==
    IF source = << >> THEN << >>
    ELSE LET u == units + Head(source).delta
         IN  << u \div UnitsPerTick >> \o TicksOf(Tail(source), u)

\* Whether a batch holds an event of that kind for pitch k.
HasEvent(b, kind, k) ==
    \E j \in 1 .. Len(b.events) : b.events[j].kind = kind /\ b.events[j].key = k

\* The ticks at which the source has an event of that kind for pitch k.
EventTicks(source, kind, k) ==
    LET ticks == TicksOf(source, 0)
    IN  { ticks[i] : i \in { n \in 1 .. Len(source) : HasEvent(source[n], kind, k) } }

\* Whether a note of pitch k may have ended by tick T: a Note-Off of the pitch
\* lies at a tick <= T, or the stream has ended by T.
MayHaveEndedBy(source, k, T) ==
    \/ T >= LastTick(source)
    \/ \E t \in EventTicks(source, "NoteOff", k) : t <= T

\* C11: for every pitch, on the sealed block, get_notes_passed_at(T) is 0 at
\* every tick T before the tick of the pitch's first Note-On, and does not
\* decrease from T1 to T2 >= T1 as long as no note of the pitch has ended by T2.
PassedNotesGrowUntilNotesEnd ==
    pc = "finish" =>
        /\ \A k \in Keys \ PitchesOf(input.source) :
              \A T \in ProbeTicks : get_notes_passed_at(joined.keys.keys[k], T) = 0
        /\ \A k \in PitchesOf(input.source) :
              LET block == joined.keys.keys[k]
                  ons == EventTicks(input.source, "NoteOn", k)
                  passed == [T \in ProbeTicks |-> get_notes_passed_at(block, T)]
                  open == { T \in ProbeTicks : ~MayHaveEndedBy(input.source, k, T) }
              IN  /\ \A T \in ProbeTicks : (\A t \in ons : T < t) => passed[T] = 0
                  /\ \A T2 \in open :
                        \A T1 \in ProbeTicks : T1 <= T2 => passed[T1] <= passed[T2]

\* Two notes of pitch 61 start at ticks 0 and 1 and none ends before the
\* stream does: 0 before tick 0, then 1, then 2.
PassedNotesGrew ==
    /\ pc = "finish"
    /\ EventTicks(input.source, "NoteOn", 61) = { 0, 1 }
    /\ ~MayHaveEndedBy(input.source, 61, 10000)
    /\ get_notes_passed_at(joined.keys.keys[61], -1) = 0
    /\ get_notes_passed_at(joined.keys.keys[61], 0) = 1
    /\ get_notes_passed_at(joined.keys.keys[61], 1) = 2
    /\ get_notes_passed_at(joined.keys.keys[61], 10000) = 2

\* A single direct stats() query at `time` on a freshly loaded file.
DirectQuery(in, time) == stats(load_from_file(in), time)

\* C12: whatever seeks and queries came before, a stats() query returns what a
\* single direct query at the timer's time returns on a freshly loaded file.
QueriesIdempotentUnderSeek ==
    [][(outcome = "Ok" /\ timer' = timer /\ last_stats' # last_stats)
         => last_stats' = DirectQuery(input, timer)]_vars

\* A query has returned 2, which only times from 1 s on give, the timer has
\* been moved back to 0.5 s since, and a query there would return 0.
QueriedThenSoughtBack ==
    /\ outcome = "Ok"
    /\ last_stats # None
    /\ last_stats.passed_notes = 2
    /\ \A t \in SeekTimes \cup { -input.start_delay } :
          t < UnitsPerSecond => stats(file, t).passed_notes = 0
    /\ timer = UnitsPerSecond \div 2

\* C13: once load_from_file has returned, no step (a seek or an advance of the
\* timer, a stats() query) changes the file object outside its timer: blocks,
\* note_count, length, ticks_per_second and signature stay what they were, and
\* so do key_blocks(), midi_length() and cake_signature(); only the timer and
\* the result of the last query change.
OnlyTimerChangesAfterLoad ==
    [][outcome = "Ok" =>
         /\ file' = file
         /\ key_blocks(file') = key_blocks(file)
         /\ midi_length(file') = midi_length(file)
         /\ file'.ticks_per_second = ticks_per_second
         /\ cake_signature(file') = cake_signature(file)
         /\ UNCHANGED << inputVars, callerVars, keyChan, audioChan, keyVars, audioVars >>
         /\ (current_time(timer') # current_time(timer) => last_stats' = last_stats)
      ]_vars

\* The timer has moved forward after a query that counted a note, and the
\* file still has the signature of a fresh load.
SoughtAndQueriedFile ==
    /\ outcome = "Ok"
    /\ file.note_count >= 3
    /\ last_stats # None /\ last_stats.passed_notes >= 1
    /\ stats(file, timer).passed_notes # last_stats.passed_notes
    /\ timer = (3 * UnitsPerSecond) \div 2
    /\ cake_signature(file) = cake_signature(load_from_file(input))

\* C14: the tree builder returns, and the file holds, 128 blocks, one per
\* pitch 0..127, whatever the source: a pitch without events, and every pitch
\* of a source without batches, has a sealed block with an empty tree.
OneBlockPerPitch ==
    /\ kpc = "done" =>
         /\ DOMAIN keyOut.keys = 0 .. 127
         /\ Cardinality(DOMAIN keyOut.keys) = 128
    /\ outcome = "Ok" =>
         /\ DOMAIN key_blocks(file) = 0 .. 127
         /\ Cardinality(DOMAIN key_blocks(file)) = 128
         /\ DOMAIN cake_signature(file).buffer_sizes = 0 .. 127
         /\ \A k \in (0 .. 127) \ PitchesOf(input.source) :
               /\ key_blocks(file)[k].tree = << >>
               /\ key_blocks(file)[k].start_time = 0

\* A source without batches has been loaded.
EmptySourceLoaded ==
    /\ outcome = "Ok"
    /\ input.source = << >>
    /\ Cardinality(DOMAIN key_blocks(file)) = 128
    /\ \A k \in 0 .. 127 : key_blocks(file)[k].tree = << >>

\* The notes still open when the stream ends: a Note-On, no matching Note-Off.
UnendedNotes(source) == OpenAt(source, LastTick(source), 0, << >>)

\* The notes of a sealed tree on channel_track ct that end at tick T.
EndingAt(tree, ct, T) ==
    { i \in 1 .. Len(tree) : tree[i].end = T /\ tree[i].channel_track = ct }

\* C15: when the tree builder has seen end-of-stream and sealed, a pitch
\* without events has an empty tree; no note of any pitch ends after
\* final_time, the tick of the whole accumulated time; every note left without
\* a matching Note-Off is in its pitch's tree with its end at final_time; and
\* the query at a tick T >= final_time counts no note of any pitch.
UnendedNotesCloseAtFinalTick ==
    kpc = "done" =>
        LET final_time == LastTick(input.source)
            unended == UnendedNotes(input.source)
        IN  /\ \A k \in Keys \ PitchesOf(input.source) : keyOut.keys[k].tree = << >>
            /\ \A k \in PitchesOf(input.source) :
                  LET block == keyOut.keys[k]
                  IN  /\ \A i \in 1 .. Len(block.tree) :
                            /\ block.tree[i].start <= block.tree[i].end
                            /\ block.tree[i].end <= final_time
                      /\ \A T \in ProbeTicks \cup { final_time, final_time + 1 } :
                            T >= final_time => get_notes_passed_at(block, T) = 0
            /\ \A n \in 1 .. Len(unended) :
                  LET id == unended[n]
                      ct == channel_track(id.channel, id.track)
                  IN  Cardinality(EndingAt(keyOut.keys[id.key].tree, ct, final_time))
                        >= Cardinality({ m \in 1 .. Len(unended) : unended[m] = id })

\* A note of pitch 61 started before the last tick is never turned off: it
\* sounds at the tick before final_time and no longer at final_time.
UnendedNoteClosed ==
    /\ kpc = "done"
    /\ LastTick(input.source) = 10000
    /\ \E n \in 1 .. Len(UnendedNotes(input.source)) :
          UnendedNotes(input.source)[n].key = 61
    /\ \E i \in 1 .. Len(keyOut.keys[61].tree) :
          /\ keyOut.keys[61].tree[i].start = 0
          /\ keyOut.keys[61].tree[i].end = 10000
    /\ get_notes_passed_at(keyOut.keys[61], 9999) = 1
    /\ get_notes_passed_at(keyOut.keys[61], 10000) = 0

\* The ticks of the markers pitch k gets from `batches`, in the order they
\* are pushed: one per Note-On or Note-Off of the pitch, at its batch's tick.
RECURSIVE MarkerTicks(_, _, _)
MarkerTicks(batches, units, k) ==
    IF batches = << >> THEN << >>
    ELSE LET u == units + Head(batches).delta
             events == Head(batches).events
             n == Cardinality({ j \in 1 .. Len(events) :
                                  events[j].kind # "Other" /\ events[j].key = k })
         IN  [i \in 1 .. n |-> u \div UnitsPerTick] \o MarkerTicks(Tail(batches), u, k)

\* C16: in the tree builder, the ticks of the markers pushed for a pitch are
\* the ticks of the batches they came with, the same for all events of one
\* batch; they never decrease in push order and lie between 0 and the tick of
\* the time accumulated so far, which at the seal is final_time.
MarkerTicksOrdered ==
    kpc \in {"run", "done"} =>
        /\ \A k \in Keys \ PitchesOf(keyRcvd) : keyLoc.trees[k] = << >>
        /\ \A k \in PitchesOf(keyRcvd) :
              LET markers == keyLoc.trees[k]
              IN  /\ [i \in 1 .. Len(markers) |-> markers[i].time]
                       = MarkerTicks(keyRcvd, 0, k)
                  /\ \A i \in 1 .. Len(markers) :
                        /\ 0 <= markers[i].time
                        /\ markers[i].time <= IntTime(keyLoc.time)
                        /\ i > 1 => markers[i - 1].time <= markers[i].time
                        /\ kpc = "done" =>
                              /\ markers[i].time <= LastTick(input.source)
                              /\ markers[i].time <= U32AsI32(keyOut.keys[k].end_time)

\* Pitch 60 has three markers from one batch, at one tick, and a fourth from
\* a later batch at a later tick; the trees have been sealed.
MarkersOfTwoBatches ==
    /\ kpc = "done"
    /\ Len(keyLoc.trees[60]) = 4
    /\ keyLoc.trees[60][1].time = keyLoc.trees[60][3].time
    /\ keyLoc.trees[60][3].time < keyLoc.trees[60][4].time
    /\ keyLoc.trees[60][4].time = LastTick(input.source)

\* C17: the time the tree builder has accumulated when it sees end-of-stream
\* is the length the producer has accumulated; in the file returned, the
\* length is the sum of the deltas of the source, and every block starts at 0
\* and ends at one and the same tick, the tick of midi_length(): the length
\* times ticks_per_second, truncated.
TimelinesAgree ==
    /\ kpc = "done" => keyLoc.time = length
    /\ outcome = "Ok" =>
         /\ midi_length(file) = SumDeltas(input.source)
         /\ midi_length(file) = keyLoc.time
         /\ \A k \in DOMAIN key_blocks(file) :
               /\ key_blocks(file)[k].start_time = 0
               /\ key_blocks(file)[k].end_time = key_blocks(file)[0].end_time
               /\ U32AsI32(key_blocks(file)[k].end_time)
                    = TruncDiv(midi_length(file) * file.ticks_per_second, UnitsPerSecond)

\* A file of as many batches as there can be has been returned; its length
\* is not a whole number of ticks.
ReturnedLengthInsideTick ==
    /\ outcome = "Ok"
    /\ Len(input.source) = MaxBatches
    /\ midi_length(file) > UnitsPerSecond
    /\ midi_length(file) % UnitsPerTick # 0
    /\ U32AsI32(key_blocks(file)[127].end_time) = midi_length(file) \div UnitsPerTick

\* Batches that have entered a channel: those received and those queued.
EnteredChannel(rcvd, ch) == Len(rcvd) + Len(ch.q)

====
